---- MODULE Spec2Model ----
(***************************************************************************)
(* Model of the rcpp crate: the Preprocessor of src/lib.rs (macro table,   *)
(* conditional stack, runtime error log, define policy) and the Parser of  *)
(* src/parser.rs (line/column tracking character scanner with backslash-   *)
(* newline splicing).                                                      *)
(*                                                                         *)
(* Every Rust method is a pure operator of the same name that maps the     *)
(* receiver (a record of the struct's fields) to the receiver after the    *)
(* call, plus the returned value where there is one.  The actions apply    *)
(* these operators to the state and record the call in `calls`.            *)
(***************************************************************************)
EXTENDS Integers, Sequences, FiniteSets, TLC

\* ------------------------------------------------------------------------
\* Bounds of the model.
\* ------------------------------------------------------------------------

\* Number of Preprocessor method calls in one run.
MaxCalls == 4

\* Number of calls in a run that only enters and leaves conditionals and asks
\* is_ignoring.
MaxCondCalls == 6

\* Number of calls in a run that only defines and undefines macros.
MaxDefCalls == 5

\* Length of the strings handed to Parser::new.
MaxLen == 4

\* Number of consecutive backslash-newline pairs inserted into a string.
MaxSplices == 2

\* Number of calls of Parser::char after the input has been handed over
\* in excess of the length of the input (calls past exhaustion).
ExtraCalls == 2

\* ------------------------------------------------------------------------
\* Values the callers draw their arguments from.
\* ------------------------------------------------------------------------

\* enum Defined
Object(s) == [variant |-> "Object", body |-> s]

Function(a, b) == [variant |-> "Function", arg |-> a, body |-> b]

\* enum DefineMethod
DefineMethod == {"Override", "Preserve", "FailOnOverride"}

\* enum PreprocessorError
NotAuthorizedDefineOverride(i, cur, cand) ==
  [kind |-> "NotAuthorizedDefineOverride", ident |-> i,
   current_value |-> cur, candidate_value |-> cand]

UndefineUnknownSymbol(i) == [kind |-> "UndefineUnknownSymbol", ident |-> i]

NonMatchingConditional == [kind |-> "NonMatchingConditional"]

CodeDriven(m) == [kind |-> "CodeDriven", message |-> m]

\* Identifiers, macro values and #error messages used by the callers.
Idents == {"FOO", "BAR"}

Values == {Object("1"), Object("2"), Function(<<"x">>, "x")}

Messages == {"boom", "bang"}

\* Option<T>: None is the empty sequence, Some(x) the one-element sequence.
None == <<>>

Some(x) == <<x>>

VARIABLES
  opt,               \* Preprocessor.opt (PreprocessorOpt)
  runtime_errors,    \* Preprocessor.runtime_errors
  defined_syms,      \* Preprocessor.defined_syms
  conditional_stack, \* Preprocessor.conditional_stack
  chars,             \* Parser.chars: the characters not yet consumed
  line,              \* Parser.line
  col,               \* Parser.col
  input,             \* the string given to Parser::new
  calls,             \* the calls made so far, each with its arguments and result
  pre                \* the fields as they were before the last call

vars == <<opt, runtime_errors, defined_syms, conditional_stack,
          chars, line, col, input, calls, pre>>

\* ------------------------------------------------------------------------
\* HashMap<String, Defined>
\* ------------------------------------------------------------------------

EmptyMap == [x \in {} |-> Object("")]

Insert(m, k, v) == [x \in (DOMAIN m) \cup {k} |-> IF x = k THEN v ELSE m[x]]

\* HashMap::remove that finds the entry and leaves it in the map.
Remove_keeps(m, k) == m

Remove(m, k) == [x \in (DOMAIN m) \ {k} |-> m[x]]

\* ------------------------------------------------------------------------
\* struct Preprocessor
\* ------------------------------------------------------------------------

\* The receiver of the Preprocessor methods in the current state.
Self ==
  [opt |-> opt,
   runtime_errors |-> runtime_errors,
   defined_syms |-> defined_syms,
   conditional_stack |-> conditional_stack]

\* define_sym with the FailOnOverride arm storing the candidate before it
\* reports the override.
define_sym_fail_stores(self, ident, value) ==
  IF ident \notin DOMAIN self.defined_syms
    THEN [self EXCEPT !.defined_syms = Insert(self.defined_syms, ident, value)]
    ELSE
      CASE self.opt.define_method = "Override" ->
             [self EXCEPT !.defined_syms = Insert(self.defined_syms, ident, value)]
        [] self.opt.define_method = "Preserve" ->
             self
        [] self.opt.define_method = "FailOnOverride" ->
             [self EXCEPT
                !.defined_syms = Insert(self.defined_syms, ident, value),
                !.runtime_errors =
                  Append(self.runtime_errors,
                         NotAuthorizedDefineOverride(
                           ident, self.defined_syms[ident], value))]

\* define_sym looking at the policy before the entry: Preserve never stores.
define_sym_preserve_never_stores(self, ident, value) ==
  IF self.opt.define_method = "Preserve"
    THEN self
    ELSE
      IF ident \notin DOMAIN self.defined_syms
        THEN [self EXCEPT !.defined_syms = Insert(self.defined_syms, ident, value)]
        ELSE
          CASE self.opt.define_method = "Override" ->
                 [self EXCEPT
                    !.defined_syms = Insert(self.defined_syms, ident, value)]
            [] self.opt.define_method = "FailOnOverride" ->
                 [self EXCEPT !.runtime_errors =
                    Append(self.runtime_errors,
                           NotAuthorizedDefineOverride(
                             ident, self.defined_syms[ident], value))]

\* define_sym with the Override arm empty, like the Preserve arm.
define_sym_override_keeps(self, ident, value) ==
  IF ident \notin DOMAIN self.defined_syms
    THEN [self EXCEPT !.defined_syms = Insert(self.defined_syms, ident, value)]
    ELSE
      CASE self.opt.define_method = "Override" ->
             self
        [] self.opt.define_method = "Preserve" ->
             self
        [] self.opt.define_method = "FailOnOverride" ->
             [self EXCEPT !.runtime_errors =
                Append(self.runtime_errors,
                       NotAuthorizedDefineOverride(
                         ident, self.defined_syms[ident], value))]

\* define_sym with the Preserve arm reporting the override, like the
\* FailOnOverride arm.
define_sym_preserve_reports(self, ident, value) ==
  IF ident \notin DOMAIN self.defined_syms
    THEN [self EXCEPT !.defined_syms = Insert(self.defined_syms, ident, value)]
    ELSE
      CASE self.opt.define_method = "Override" ->
             [self EXCEPT !.defined_syms = Insert(self.defined_syms, ident, value)]
        [] self.opt.define_method \in {"Preserve", "FailOnOverride"} ->
             [self EXCEPT !.runtime_errors =
                Append(self.runtime_errors,
                       NotAuthorizedDefineOverride(
                         ident, self.defined_syms[ident], value))]

define_sym(self, ident, value) ==
  IF ident \notin DOMAIN self.defined_syms
    THEN \* Entry::Vacant
      [self EXCEPT !.defined_syms = Insert(self.defined_syms, ident, value)]
    ELSE \* Entry::Occupied
      CASE self.opt.define_method = "Override" ->
             [self EXCEPT !.defined_syms = Insert(self.defined_syms, ident, value)]
        [] self.opt.define_method = "Preserve" ->
             self
        [] self.opt.define_method = "FailOnOverride" ->
             [self EXCEPT !.runtime_errors =
                Append(self.runtime_errors,
                       NotAuthorizedDefineOverride(
                         ident, self.defined_syms[ident], value))]

\* undef_sym with the test on the removed entry inverted (is_some for is_none).
undef_sym_inverted(self, ident) ==
  IF ident \notin DOMAIN self.defined_syms
    THEN self
    ELSE
      [self EXCEPT
         !.defined_syms = Remove(self.defined_syms, ident),
         !.runtime_errors =
           Append(self.runtime_errors, UndefineUnknownSymbol(ident))]

undef_sym(self, ident) ==
  IF ident \notin DOMAIN self.defined_syms
    THEN \* remove(ident) is None
      [self EXCEPT !.runtime_errors =
         Append(self.runtime_errors, UndefineUnknownSymbol(ident))]
    ELSE
      [self EXCEPT !.defined_syms = Remove(self.defined_syms, ident)]

\* enter_conditional that overwrites the innermost open conditional, as #else
\* would, and pushes only on an empty stack.
enter_conditional_replaces_top(self, condition) ==
  IF self.conditional_stack = <<>>
    THEN [self EXCEPT !.conditional_stack = <<condition>>]
    ELSE [self EXCEPT
            !.conditional_stack[Len(self.conditional_stack)] = condition]

enter_conditional(self, condition) ==
  [self EXCEPT !.conditional_stack = Append(self.conditional_stack, condition)]

\* Vec::remove(0) for Vec::pop: the first element is taken, not the last.
Pop_front(v) ==
  IF v = <<>>
    THEN [vec |-> v, ret |-> None]
    ELSE [vec |-> Tail(v), ret |-> Some(Head(v))]

\* Vec::pop: the vector without its last element and the element, if any.
Pop(v) ==
  IF v = <<>>
    THEN [vec |-> v, ret |-> None]
    ELSE [vec |-> SubSeq(v, 1, Len(v) - 1), ret |-> Some(v[Len(v)])]

\* leave_conditional without the report of the unmatched #endif.
leave_conditional_silent(self) ==
  LET popped == Pop(self.conditional_stack)
  IN [self |-> [self EXCEPT !.conditional_stack = popped.vec],
      ret |-> popped.ret]

\* Returns the receiver after the call and the returned Option<bool>.
leave_conditional(self) ==
  LET popped == Pop(self.conditional_stack)
      cond == popped.ret
      s1 == [self EXCEPT !.conditional_stack = popped.vec]
      s2 == IF cond = None
              THEN [s1 EXCEPT !.runtime_errors =
                      Append(s1.runtime_errors, NonMatchingConditional)]
              ELSE s1
  IN [self |-> s2, ret |-> cond]

\* is_ignoring with unwrap_or(false) for unwrap_or(true).
is_ignoring_default_false(self) ==
  IF self.conditional_stack = <<>>
    THEN FALSE
    ELSE self.conditional_stack[Len(self.conditional_stack)]

\* &self: the receiver is only read.
is_ignoring(self) ==
  IF self.conditional_stack = <<>>
    THEN TRUE
    ELSE self.conditional_stack[Len(self.conditional_stack)]

\* raise_error keeping the last error only: the log is replaced, not extended.
raise_error_replaces(self, error) ==
  [self EXCEPT !.runtime_errors = <<CodeDriven(error)>>]

\* raise_error that does not report a message that is in the log already.
raise_error_once(self, error) ==
  IF \E k \in 1..Len(self.runtime_errors) :
       self.runtime_errors[k] = CodeDriven(error)
    THEN self
    ELSE [self EXCEPT !.runtime_errors =
            Append(self.runtime_errors, CodeDriven(error))]

raise_error(self, error) ==
  [self EXCEPT !.runtime_errors = Append(self.runtime_errors, CodeDriven(error))]

\* ------------------------------------------------------------------------
\* struct Parser
\* ------------------------------------------------------------------------

NL == "\n"

BACKSLASH == "\\"

\* Characters the scanned strings are made of.
Alphabet == {"a", " ", NL, BACKSLASH}

\* All strings over Alphabet of length at most n.
Strings(n) == UNION {[1..k -> Alphabet] : k \in 0..n}

\* Parser::new(s)
new(s) == [chars |-> s, line |-> 1, col |-> 1]

\* The receiver of the Parser methods in the current state.
SelfParser == [chars |-> chars, line |-> line, col |-> col]

\* advance_state with the newline arm leaving the column where it is.
advance_state_keeps_col(self, c) ==
  IF c = NL
    THEN [self EXCEPT !.line = self.line + 1]
    ELSE [self EXCEPT !.col = self.col + 1]

\* advance_state with the newline arm setting the column to 0, not 1.
advance_state_col_zero(self, c) ==
  IF c = NL
    THEN [self EXCEPT !.line = self.line + 1, !.col = 0]
    ELSE [self EXCEPT !.col = self.col + 1]

advance_state(self, c) ==
  IF c = NL
    THEN [self EXCEPT !.line = self.line + 1, !.col = 1]
    ELSE [self EXCEPT !.col = self.col + 1]

\* char with the column advanced when chars.next() is None, as if the end of
\* the input were a character.
RECURSIVE char_counts_end(_)
char_counts_end(self) ==
  IF self.chars = <<>>
    THEN [self |-> [self EXCEPT !.col = self.col + 1], ret |-> None]
    ELSE
      LET c == Head(self.chars)
          s1 == [self EXCEPT !.chars = Tail(self.chars)]
      IN IF c = BACKSLASH
           THEN IF s1.chars = <<>>
                  THEN [self |-> s1, ret |-> None]
                  ELSE LET c2 == Head(s1.chars)
                       IN IF c2 = NL
                            THEN char_counts_end(
                                   [s1 EXCEPT !.chars = Tail(s1.chars)])
                            ELSE [self |-> advance_state(s1, c2),
                                  ret |-> Some(BACKSLASH)]
           ELSE [self |-> advance_state(s1, c), ret |-> Some(c)]

\* char with the newline of a backslash-newline pair counted as a line.
RECURSIVE char_splice_counts_line(_)
char_splice_counts_line(self) ==
  IF self.chars = <<>>
    THEN [self |-> self, ret |-> None]
    ELSE
      LET c == Head(self.chars)
          s1 == [self EXCEPT !.chars = Tail(self.chars)]
      IN IF c = BACKSLASH
           THEN IF s1.chars = <<>>
                  THEN [self |-> s1, ret |-> None]
                  ELSE LET c2 == Head(s1.chars)
                       IN IF c2 = NL
                            THEN char_splice_counts_line(
                                   advance_state(
                                     [s1 EXCEPT !.chars = Tail(s1.chars)], c2))
                            ELSE [self |-> advance_state(s1, c2),
                                  ret |-> Some(BACKSLASH)]
           ELSE [self |-> advance_state(s1, c), ret |-> Some(c)]

\* char that looks at a lone backslash with peek() and never takes it.
RECURSIVE char_backslash_stays(_)
char_backslash_stays(self) ==
  IF self.chars = <<>>
    THEN [self |-> self, ret |-> None]
    ELSE
      LET c == Head(self.chars)
          s1 == [self EXCEPT !.chars = Tail(self.chars)]
      IN IF c = BACKSLASH
           THEN IF s1.chars = <<>>
                  THEN [self |-> s1, ret |-> None]
                  ELSE LET c2 == Head(s1.chars)
                       IN IF c2 = NL
                            THEN char_backslash_stays(
                                   [s1 EXCEPT !.chars = Tail(s1.chars)])
                            ELSE [self |-> advance_state(self, c2),
                                  ret |-> Some(BACKSLASH)]
           ELSE [self |-> advance_state(s1, c), ret |-> Some(c)]

\* char that advances for a lone backslash and for the character peeked
\* after it.
RECURSIVE char_double_advance(_)
char_double_advance(self) ==
  IF self.chars = <<>>
    THEN [self |-> self, ret |-> None]
    ELSE
      LET c == Head(self.chars)
          s1 == [self EXCEPT !.chars = Tail(self.chars)]
      IN IF c = BACKSLASH
           THEN IF s1.chars = <<>>
                  THEN [self |-> s1, ret |-> None]
                  ELSE LET c2 == Head(s1.chars)
                       IN IF c2 = NL
                            THEN char_double_advance(
                                   [s1 EXCEPT !.chars = Tail(s1.chars)])
                            ELSE [self |-> advance_state(advance_state(s1, c), c2),
                                  ret |-> Some(BACKSLASH)]
           ELSE [self |-> advance_state(s1, c), ret |-> Some(c)]

\* Returns the receiver after the call and the returned Option<char>.
\* chars.next() takes the head of the remaining characters, chars.peek()
\* reads it and leaves it in place.
RECURSIVE char(_)
char(self) ==
  IF self.chars = <<>>
    THEN [self |-> self, ret |-> None]
    ELSE
      LET c == Head(self.chars)
          s1 == [self EXCEPT !.chars = Tail(self.chars)]
      IN IF c = BACKSLASH
           THEN IF s1.chars = <<>>
                  THEN [self |-> s1, ret |-> None]
                  ELSE LET c2 == Head(s1.chars)
                       IN IF c2 = NL
                            THEN char([s1 EXCEPT !.chars = Tail(s1.chars)])
                            ELSE [self |-> advance_state(s1, c2),
                                  ret |-> Some(BACKSLASH)]
           ELSE [self |-> advance_state(s1, c), ret |-> Some(c)]

\* ------------------------------------------------------------------------
\* State machine
\* ------------------------------------------------------------------------

\* The return value of the methods that return nothing.
Unit == "()"

\* All the fields of both structs in the current state.
Fields ==
  [runtime_errors |-> runtime_errors,
   defined_syms |-> defined_syms,
   conditional_stack |-> conditional_stack,
   chars |-> chars,
   line |-> line,
   col |-> col]

\* A Preprocessor as constructed: nothing defined, no open conditional, no error.
NewPreprocessor(method) ==
  /\ opt = [define_method |-> method]
  /\ runtime_errors = <<>>
  /\ defined_syms = EmptyMap
  /\ conditional_stack = <<>>

NewParser(s) ==
  /\ input = s
  /\ chars = new(s).chars
  /\ line = new(s).line
  /\ col = new(s).col

NoCall ==
  /\ calls = <<>>
  /\ pre = Fields

Init ==
  /\ \E method \in DefineMethod : NewPreprocessor(method)
  /\ NewParser(<<>>)
  /\ NoCall

ParserInit ==
  /\ NewPreprocessor("Override")
  /\ \E s \in Strings(MaxLen) : NewParser(s)
  /\ NoCall

\* The run may go on for another call while fewer than `max` were made.
More(max) == Len(calls) < max

\* The Preprocessor becomes `self`; `call` is recorded.
SetPreprocessor(self, call) ==
  /\ opt' = self.opt
  /\ runtime_errors' = self.runtime_errors
  /\ defined_syms' = self.defined_syms
  /\ conditional_stack' = self.conditional_stack
  /\ calls' = Append(calls, call)
  /\ pre' = Fields
  /\ UNCHANGED <<chars, line, col, input>>

DefineSym(ident, value) ==
  SetPreprocessor(define_sym(Self, ident, value),
                  [op |-> "define_sym", ident |-> ident, value |-> value,
                   ret |-> Unit])

UndefSym(ident) ==
  SetPreprocessor(undef_sym(Self, ident),
                  [op |-> "undef_sym", ident |-> ident, ret |-> Unit])

EnterConditional(condition) ==
  SetPreprocessor(enter_conditional(Self, condition),
                  [op |-> "enter_conditional", condition |-> condition,
                   ret |-> Unit])

LeaveConditional ==
  LET r == leave_conditional(Self)
  IN SetPreprocessor(r.self, [op |-> "leave_conditional", ret |-> r.ret])

IsIgnoring ==
  SetPreprocessor(Self, [op |-> "is_ignoring", ret |-> is_ignoring(Self)])

RaiseError(error) ==
  SetPreprocessor(raise_error(Self, error),
                  [op |-> "raise_error", error |-> error, ret |-> Unit])

Char ==
  LET r == char(SelfParser)
  IN /\ More(Len(input) + ExtraCalls)
     /\ chars' = r.self.chars
     /\ line' = r.self.line
     /\ col' = r.self.col
     /\ calls' = Append(calls, [op |-> "char", ret |-> r.ret,
                                 line |-> r.self.line, col |-> r.self.col])
     /\ pre' = Fields
     /\ UNCHANGED <<opt, runtime_errors, defined_syms, conditional_stack, input>>

Next ==
  \/ More(MaxCalls) /\ \E ident \in Idents, value \in Values : DefineSym(ident, value)
  \/ More(MaxCalls) /\ \E ident \in Idents : UndefSym(ident)
  \/ More(MaxCalls) /\ \E condition \in BOOLEAN : EnterConditional(condition)
  \/ More(MaxCalls) /\ LeaveConditional
  \/ More(MaxCalls) /\ IsIgnoring
  \/ More(MaxCalls) /\ \E error \in Messages : RaiseError(error)

CondNext ==
  \/ More(MaxCondCalls) /\ \E condition \in BOOLEAN : EnterConditional(condition)
  \/ More(MaxCondCalls) /\ LeaveConditional
  \/ More(MaxCondCalls) /\ IsIgnoring

ParserNext == Char

\* The directive dispatcher driving one Preprocessor.
Spec == Init /\ [][Next]_vars

DefNext ==
  \/ More(MaxDefCalls) /\ \E ident \in Idents, value \in Values : DefineSym(ident, value)
  \/ More(MaxDefCalls) /\ \E ident \in Idents : UndefSym(ident)

\* A dispatcher that meets #define and #undef only.
DefSpec == Init /\ [][DefNext]_vars

\* A dispatcher that meets conditional directives only.
CondSpec == Init /\ [][CondNext]_vars

\* A caller reading one string through one Parser.
ParserSpec == ParserInit /\ [][ParserNext]_vars

\* ------------------------------------------------------------------------
\* Reading the recorded calls
\* ------------------------------------------------------------------------

\* The last call made.
Last == calls[Len(calls)]

\* The last call made was a call of `op`.
Called(op) == calls # <<>> /\ Last.op = op

\* The last diagnostic of a non-empty log.
LastError == runtime_errors[Len(runtime_errors)]

\* The macro table is m with k mapped to v and every other entry as in m.
IsInsert(t, m, k, v) ==
  /\ DOMAIN t = (DOMAIN m) \cup {k}
  /\ t[k] = v
  /\ \A x \in (DOMAIN m) \ {k} : t[x] = m[x]

\* ------------------------------------------------------------------------
\* define_sym
\* ------------------------------------------------------------------------

\* The last call was define_sym of an identifier that was already defined.
Redefined == Called("define_sym") /\ Last.ident \in DOMAIN pre.defined_syms

\* C1: under FailOnOverride, define_sym(ident, v2) of an identifier that is
\* mapped to v1 appends exactly one NotAuthorizedDefineOverride{ident,
\* current_value: v1, candidate_value: v2} and leaves the macro table as it was.
C1_FailOnOverrideRejects ==
  (Redefined /\ opt.define_method = "FailOnOverride") =>
    /\ runtime_errors =
         Append(pre.runtime_errors,
                NotAuthorizedDefineOverride(
                  Last.ident, pre.defined_syms[Last.ident], Last.value))
    /\ defined_syms = pre.defined_syms

\* A rejected redefinition with a candidate that differs from the stored
\* value, while another identifier is defined as well.
C1_Witness ==
  /\ Redefined
  /\ opt.define_method = "FailOnOverride"
  /\ Last.value # pre.defined_syms[Last.ident]
  /\ DOMAIN pre.defined_syms = Idents

\* C2: under every policy, define_sym(ident, v) of an identifier that is not
\* in the macro table maps ident to v, keeps every other entry and appends
\* nothing to the error log.
C2_DefineFresh ==
  (Called("define_sym") /\ Last.ident \notin DOMAIN pre.defined_syms) =>
    /\ IsInsert(defined_syms, pre.defined_syms, Last.ident, Last.value)
    /\ runtime_errors = pre.runtime_errors

\* A fresh definition next to an existing entry and a non-empty log.
C2_Witness ==
  /\ Called("define_sym")
  /\ Last.ident \notin DOMAIN pre.defined_syms
  /\ pre.defined_syms # EmptyMap
  /\ pre.runtime_errors # <<>>
  /\ opt.define_method = "FailOnOverride"

\* C3: under Override, define_sym(ident, v2) of an identifier mapped to v1
\* leaves ident mapped to v2 and appends nothing to the error log.
C3_OverrideReplaces ==
  (Redefined /\ opt.define_method = "Override") =>
    /\ Last.ident \in DOMAIN defined_syms
    /\ defined_syms[Last.ident] = Last.value
    /\ runtime_errors = pre.runtime_errors

\* A redefinition under Override with a value other than the stored one.
C3_Witness ==
  /\ Redefined
  /\ opt.define_method = "Override"
  /\ Last.value # pre.defined_syms[Last.ident]
  /\ pre.runtime_errors # <<>>

\* C4: under Preserve, define_sym(ident, v2) of an identifier mapped to v1
\* changes nothing: macro table, error log and conditional stack are as before.
C4_PreserveNoOp ==
  (Redefined /\ opt.define_method = "Preserve") =>
    /\ defined_syms = pre.defined_syms
    /\ runtime_errors = pre.runtime_errors
    /\ conditional_stack = pre.conditional_stack

\* A redefinition under Preserve with a value other than the stored one,
\* inside an open conditional and after a diagnostic.
C4_Witness ==
  /\ Redefined
  /\ opt.define_method = "Preserve"
  /\ Last.value # pre.defined_syms[Last.ident]
  /\ pre.conditional_stack # <<>>
  /\ pre.runtime_errors # <<>>

\* ------------------------------------------------------------------------
\* undef_sym
\* ------------------------------------------------------------------------

\* C5: undef_sym(ident) of an identifier that is not in the macro table
\* appends exactly one UndefineUnknownSymbol{ident} and leaves the table as it
\* was; undef_sym(ident) of an identifier that is in the table removes exactly
\* that entry and appends nothing to the error log.
C5_Undef ==
  Called("undef_sym") =>
    IF Last.ident \notin DOMAIN pre.defined_syms
      THEN /\ runtime_errors =
                Append(pre.runtime_errors, UndefineUnknownSymbol(Last.ident))
           /\ defined_syms = pre.defined_syms
      ELSE /\ DOMAIN defined_syms = (DOMAIN pre.defined_syms) \ {Last.ident}
           /\ \A x \in DOMAIN defined_syms : defined_syms[x] = pre.defined_syms[x]
           /\ runtime_errors = pre.runtime_errors

\* Both cases in one run: the first call undefines an identifier of the empty
\* table, the last call undefines one of two defined identifiers.
C5_Witness ==
  /\ Called("undef_sym")
  /\ calls[1].op = "undef_sym"
  /\ runtime_errors = <<UndefineUnknownSymbol(calls[1].ident)>>
  /\ Last.ident \in DOMAIN pre.defined_syms
  /\ defined_syms # EmptyMap

\* ------------------------------------------------------------------------
\* enter_conditional, leave_conditional, is_ignoring
\* ------------------------------------------------------------------------

\* C6: leave_conditional() on an empty conditional stack returns None, appends
\* exactly one NonMatchingConditional, and leaves the stack empty and the
\* macro table unchanged.
C6_LeaveEmpty ==
  (Called("leave_conditional") /\ pre.conditional_stack = <<>>) =>
    /\ Last.ret = None
    /\ runtime_errors = Append(pre.runtime_errors, NonMatchingConditional)
    /\ conditional_stack = <<>>
    /\ defined_syms = pre.defined_syms

\* An unmatched leave after a matched pair, with a macro defined and a
\* diagnostic already in the log.
C6_Witness ==
  /\ Called("leave_conditional")
  /\ pre.conditional_stack = <<>>
  /\ pre.defined_syms # EmptyMap
  /\ pre.runtime_errors # <<>>

IsEnter(j) == calls[j].op = "enter_conditional"

IsLeave(j) == calls[j].op = "leave_conditional"

\* Number of enter_conditional / leave_conditional calls among calls a..b.
Enters(a, b) == Cardinality({k \in a..b : IsEnter(k)})

Leaves(a, b) == Cardinality({k \in a..b : IsLeave(k)})

\* Every prefix of the run has at least as many enters as leaves.
Balanced == \A j \in 1..Len(calls) : Enters(1, j) >= Leaves(1, j)

\* In a balanced run, the enter that the leave at j closes: the most recent
\* enter before j with as many enters as leaves between it and j.
Matching(j) ==
  CHOOSE i \in 1..(j - 1) :
    /\ IsEnter(i)
    /\ Enters(i + 1, j - 1) = Leaves(i + 1, j - 1)
    /\ \A k \in (i + 1)..(j - 1) :
         ~(IsEnter(k) /\ Enters(k + 1, j - 1) = Leaves(k + 1, j - 1))

\* The run is n enter_conditional calls followed by n leave_conditional calls.
EntersThenLeaves(n) ==
  /\ Len(calls) = 2 * n
  /\ \A k \in 1..n : IsEnter(k) /\ IsLeave(n + k)

\* C7: in a balanced run of enter_conditional / leave_conditional calls that
\* starts with an empty stack, every leave_conditional returns Some(b) with b
\* the value pushed by its matching enter_conditional, and neither call
\* appends a diagnostic; n enters followed by n leaves return the pushed
\* values in reverse order.
C7_BalancedLIFO ==
  Balanced =>
    /\ \A j \in 1..Len(calls) :
         IsLeave(j) => calls[j].ret = Some(calls[Matching(j)].condition)
    /\ (Called("enter_conditional") \/ Called("leave_conditional")) =>
         runtime_errors = pre.runtime_errors
    /\ \A n \in 1..Len(calls) :
         EntersThenLeaves(n) =>
           \A k \in 1..n : calls[n + k].ret = Some(calls[n + 1 - k].condition)

\* Three enters, not all with the same value, then three leaves.
C7_Witness ==
  /\ EntersThenLeaves(3)
  /\ calls[1].condition # calls[2].condition
  /\ calls[2].condition = calls[3].condition

\* A leave that closes an enter made before a pair that is already closed.
C7_WitnessNested ==
  /\ Balanced
  /\ Called("leave_conditional")
  /\ Matching(Len(calls)) < Len(calls) - 2
  /\ \E k \in 1..Len(calls) : IsLeave(k) /\ Matching(k) > Matching(Len(calls))
  /\ \E k \in 1..Len(calls) : calls[k].op = "is_ignoring"

\* C8: is_ignoring() returns the value on top of the conditional stack when
\* the stack is non-empty and true when it is empty, and changes neither the
\* macro table nor the stack nor the error log.
C8_IsIgnoringTop ==
  Called("is_ignoring") =>
    /\ Last.ret = IF pre.conditional_stack = <<>>
                    THEN TRUE
                    ELSE pre.conditional_stack[Len(pre.conditional_stack)]
    /\ defined_syms = pre.defined_syms
    /\ conditional_stack = pre.conditional_stack
    /\ runtime_errors = pre.runtime_errors

\* Both cases in one run: is_ignoring is the first call (empty stack) and the
\* last call, then with false on top of true.
C8_Witness ==
  /\ Called("is_ignoring")
  /\ calls[1].op = "is_ignoring"
  /\ calls[1].ret = TRUE
  /\ conditional_stack = <<TRUE, FALSE>>
  /\ Last.ret = FALSE

\* C9: with a non-empty conditional stack, is_ignoring() returns true when the
\* innermost open conditional was entered with a false condition (the text is
\* to be ignored) and false when it was entered with a true condition.
C9_IgnoringWhenFalse ==
  (Called("is_ignoring") /\ pre.conditional_stack # <<>>) =>
    Last.ret = ~pre.conditional_stack[Len(pre.conditional_stack)]

\* ------------------------------------------------------------------------
\* Parser::char
\* ------------------------------------------------------------------------

\* Number of calls so far that yielded a character.
Yielded == Cardinality({k \in 1..Len(calls) : calls[k].ret # None})

NoBackslash == \A k \in 1..Len(input) : input[k] # BACKSLASH

\* C10: for an input without backslash, the parser starts at line 1, col 1; a
\* call of char() that yields a character other than '\n' returns that input
\* character, adds 1 to col and keeps line; a call that yields '\n' adds 1 to
\* line and sets col to 1.
C10_PlainCharacters ==
  NoBackslash =>
    /\ calls = <<>> => (line = 1 /\ col = 1)
    /\ (Called("char") /\ Last.ret # None) =>
         /\ Yielded \in 1..Len(input)
         /\ Last.ret = Some(input[Yielded])
         /\ IF input[Yielded] = NL
              THEN line = pre.line + 1 /\ col = 1
              ELSE line = pre.line /\ col = pre.col + 1

\* A plain character yielded on the second line, after a newline that reset
\* a column greater than 1.
C10_Witness ==
  /\ NoBackslash
  /\ Called("char")
  /\ Len(calls) = 4
  /\ input[2] = NL
  /\ Last.ret = Some("a")
  /\ line = 2
  /\ col = 3


\* C11: once char() has returned None, every later call returns None too, and
\* line and col stay what they were when None was first returned.
C11_EndIsIdempotent ==
  \A j \in 1..Len(calls) :
    (calls[j].op = "char" /\ calls[j].ret = None) =>
      \A k \in j..Len(calls) :
        /\ calls[k].ret = None
        /\ calls[k].line = calls[j].line
        /\ calls[k].col = calls[j].col

\* None returned three times in a row, the first time for a backslash that
\* ends the input, after a character on the second line.
C11_Witness ==
  /\ Len(calls) = Len(input) + 2
  /\ Len(input) >= 3
  /\ input[Len(input)] = BACKSLASH
  /\ calls[Len(input) - 1].ret # None
  /\ calls[Len(input)].ret = None
  /\ Last.ret = None
  /\ line = 2
  /\ col = 2


\* What a caller sees of a parser `self` read to its end: for every character
\* char() yields, the character and line() and col() after the call.
RECURSIVE RunFrom(_)
RunFrom(self) ==
  LET r == char(self)
  IN IF r.ret = None
       THEN <<>>
       ELSE <<<<r.ret[1], r.self.line, r.self.col>>>> \o RunFrom(r.self)

\* The same of the calls made so far on `input`.
Observed ==
  LET yields == SelectSeq(calls, LAMBDA c : c.ret # None)
  IN [k \in 1..Len(yields) |-> <<yields[k].ret[1], yields[k].line, yields[k].col>>]

\* n backslash-newline pairs.
RECURSIVE Pairs(_)
Pairs(n) == IF n = 0 THEN <<>> ELSE <<BACKSLASH, NL>> \o Pairs(n - 1)

\* s with n backslash-newline pairs inserted between s[p] and s[p + 1].
Spliced(s, p, n) == SubSeq(s, 1, p) \o Pairs(n) \o SubSeq(s, p + 1, Len(s))

\* The calls made so far on `input` yielded what a parser of `s` yields first,
\* at the same positions, and no less if the input is exhausted.
SameRun(s) ==
  LET other == RunFrom(new(s))
  IN /\ Len(Observed) <= Len(other)
     /\ \A k \in 1..Len(Observed) : Observed[k] = other[k]
     /\ (Called("char") /\ Last.ret = None) => Len(other) = Len(Observed)

\* The places of `input` where a character is followed by another one.
Gaps == 1..(Len(input) - 1)

\* The gap p of `input` is inside a backslash-newline pair.
InsidePair(p) == input[p] = BACKSLASH /\ input[p + 1] = NL

\* C12 as claimed: inserting one or more consecutive backslash-newline pairs
\* between any two characters of the input changes neither the characters
\* char() yields nor the (line, col) after each of them.
C12_SpliceInvisibleAnywhere ==
  \A p \in Gaps, n \in 1..MaxSplices : SameRun(Spliced(input, p, n))

\* C12 as amended: the same, for every place between two characters except
\* between a backslash and the newline that directly follows it.
C12_SpliceInvisible ==
  \A p \in Gaps, n \in 1..MaxSplices :
    ~InsidePair(p) => SameRun(Spliced(input, p, n))

\* An input read to its end whose characters are all yielded, a newline and
\* a backslash among them: every gap is a place to insert.
C12_Witness ==
  /\ Called("char")
  /\ Last.ret = None
  /\ Len(input) >= 3
  /\ Len(Observed) = Len(input)
  /\ \E p \in Gaps : input[p] = BACKSLASH
  /\ \E p \in Gaps : input[p] = NL


\* s without its backslash-newline pairs, read from the left.
RECURSIVE WithoutPairs(_)
WithoutPairs(s) ==
  IF s = <<>>
    THEN <<>>
    ELSE IF Len(s) >= 2 /\ s[1] = BACKSLASH /\ s[2] = NL
           THEN WithoutPairs(SubSeq(s, 3, Len(s)))
           ELSE <<s[1]>> \o WithoutPairs(Tail(s))

\* The characters yielded so far.
YieldedChars == [k \in 1..Len(Observed) |-> Observed[k][1]]

\* C13: every backslash that is not immediately followed by '\n' is yielded
\* as '\\', a backslash that ends the input included, so that the characters
\* yielded before the end of input are the input without its
\* backslash-newline pairs.
C13_BackslashLiteral ==
  (Called("char") /\ Last.ret = None) => YieldedChars = WithoutPairs(input)


\* The newlines among the first n characters of s.
Newlines(s, n) == {k \in 1..n : s[k] = NL}

\* 1-based line and column of s[i] in s.
LineOf(s, i) == 1 + Cardinality(Newlines(s, i - 1))

ColOf(s, i) ==
  LET before == Newlines(s, i - 1)
  IN IF before = {}
       THEN i
       ELSE i - (CHOOSE k \in before : \A m \in before : m <= k)

\* Index in `input` of the character consumed last.
Consumed == Len(input) - Len(chars)

\* C14 as claimed: after every call of char() that yields a character,
\* (line, col) is the 1-based line and column in the input of that character;
\* (1, 1) before any call.
C14_PositionOfLast ==
  /\ calls = <<>> => (line = 1 /\ col = 1)
  /\ (Called("char") /\ Last.ret # None) =>
       /\ line = LineOf(input, Consumed)
       /\ col = ColOf(input, Consumed)

\* C14 as amended: after every call of char() that yields a character,
\* (line, col) is the 1-based line and column of the place that follows that
\* character in the text yielded so far, where the next character will go;
\* (1, 1) before any call.
C14_PositionAfterLast ==
  /\ calls = <<>> => (line = 1 /\ col = 1)
  /\ (Called("char") /\ Last.ret # None) =>
       /\ line = LineOf(YieldedChars, Len(YieldedChars) + 1)
       /\ col = ColOf(YieldedChars, Len(YieldedChars) + 1)

\* A character yielded on the second line of the yielded text, from an input
\* with a backslash-newline pair in it.
C14_Witness ==
  /\ Called("char")
  /\ Last.ret # None
  /\ Len(input) > Len(YieldedChars) + 1
  /\ line = 2
  /\ col = 2


\* ------------------------------------------------------------------------
\* runtime_errors
\* ------------------------------------------------------------------------

\* The last call was a call of a Preprocessor method.
CalledPreprocessor ==
  /\ calls # <<>>
  /\ Last.op \in {"define_sym", "undef_sym", "enter_conditional",
                  "leave_conditional", "is_ignoring", "raise_error"}

\* The sequence s starts with the sequence t.
IsPrefix(t, s) == Len(t) <= Len(s) /\ \A k \in 1..Len(t) : s[k] = t[k]

\* C15: the error log is append-only: after each call of define_sym,
\* undef_sym, enter_conditional, leave_conditional, is_ignoring or raise_error
\* the log before the call is a prefix of the log, which is longer by at most
\* one diagnostic.
C15_LogAppendOnly ==
  CalledPreprocessor =>
    /\ IsPrefix(pre.runtime_errors, runtime_errors)
    /\ Len(runtime_errors) <= Len(pre.runtime_errors) + 1

\* A log of three diagnostics of different kinds, the same message twice
\* among them, then a call that appends nothing.
C15_Witness ==
  /\ Len(calls) = 4
  /\ Len(runtime_errors) = 3
  /\ runtime_errors[1] = runtime_errors[3]
  /\ runtime_errors[1].kind = "CodeDriven"
  /\ runtime_errors[2].kind # "CodeDriven"
  /\ pre.runtime_errors = runtime_errors

\* C16: raise_error(message) appends exactly one CodeDriven(message), with the
\* message as given, at the end of the error log, and leaves the macro table
\* and the conditional stack unchanged.
C16_RaiseError ==
  Called("raise_error") =>
    /\ runtime_errors = Append(pre.runtime_errors, CodeDriven(Last.error))
    /\ defined_syms = pre.defined_syms
    /\ conditional_stack = pre.conditional_stack

\* A message raised for the second time, with a macro defined and a
\* conditional open.
C16_Witness ==
  /\ Called("raise_error")
  /\ pre.runtime_errors = <<CodeDriven(Last.error)>>
  /\ defined_syms # EmptyMap
  /\ conditional_stack # <<>>


BackslashThenChar ==
  /\ Len(calls) >= 2
  /\ Last.op = "char"
  /\ calls[Len(calls) - 1].ret = Some(BACKSLASH)
  /\ Last.ret # None
  /\ Last.ret # Some(NL)

\* The column before the call that yielded the backslash.
ColBeforeBackslash ==
  IF Len(calls) = 2 THEN new(input).col ELSE calls[Len(calls) - 2].col

\* C18 as claimed: after char() has yielded a lone backslash and then the
\* character that follows it, col is one greater than if each of the two
\* had advanced it by 1.
C18_DoubleAdvance ==
  BackslashThenChar => col = ColBeforeBackslash + 2 + 1

\* C18 as amended: after char() has yielded a lone backslash and then the
\* character that follows it, col is greater by exactly 2, 1 for each of the
\* two, and line is what it was after the backslash.
C18_NoDoubleAdvance ==
  BackslashThenChar =>
    /\ col = ColBeforeBackslash + 2
    /\ line = calls[Len(calls) - 1].line

\* A backslash and the character after it yielded on the second line, after
\* another character of that line.
C18_Witness ==
  /\ BackslashThenChar
  /\ Len(calls) = 4
  /\ input[3] = BACKSLASH
  /\ line = 2
  /\ col = 4


\* ------------------------------------------------------------------------
\* conditional_stack and defined_syms over a whole run
\* ------------------------------------------------------------------------

\* The leave_conditional calls so far that returned Some.
Left == {k \in 1..Len(calls) : IsLeave(k) /\ calls[k].ret # None}

\* C19: the depth of the conditional stack is the number of enter_conditional
\* calls minus the number of leave_conditional calls that returned Some;
\* enter_conditional pushes, leave_conditional pops, no other method changes
\* the stack, and a leave_conditional that returns None leaves the depth at 0.
C19_StackDepth ==
  /\ Len(conditional_stack) = Enters(1, Len(calls)) - Cardinality(Left)
  /\ CalledPreprocessor =>
       CASE Last.op = "enter_conditional" ->
              conditional_stack = Append(pre.conditional_stack, Last.condition)
         [] Last.op = "leave_conditional" /\ Last.ret # None ->
              pre.conditional_stack = Append(conditional_stack, Last.ret[1])
         [] Last.op = "leave_conditional" /\ Last.ret = None ->
              conditional_stack = <<>> /\ pre.conditional_stack = <<>>
         [] OTHER ->
              conditional_stack = pre.conditional_stack

\* After an unmatched leave and two enters, a call of define_sym inside the
\* two open conditionals.
C19_Witness ==
  /\ Len(calls) = 4
  /\ IsLeave(1)
  /\ calls[1].ret = None
  /\ Called("define_sym")
  /\ Len(conditional_stack) = 2
  /\ conditional_stack[1] # conditional_stack[2]

IsDefine(j, i) == calls[j].op = "define_sym" /\ calls[j].ident = i

IsUndef(j, i) == calls[j].op = "undef_sym" /\ calls[j].ident = i

\* Call j undefines i after a define_sym of i with no undef_sym of i between
\* the two.
SuccessfulUndef(j, i) ==
  /\ IsUndef(j, i)
  /\ \E k \in 1..(j - 1) :
       IsDefine(k, i) /\ \A m \in (k + 1)..(j - 1) : ~IsUndef(m, i)

\* The define_sym calls of i since its last successful undef_sym, or since
\* the start.
DefinesSince(i) ==
  {k \in 1..Len(calls) :
     IsDefine(k, i) /\ \A m \in (k + 1)..Len(calls) : ~SuccessfulUndef(m, i)}

Earliest(S) == CHOOSE k \in S : \A m \in S : k <= m

Latest(S) == CHOOSE k \in S : \A m \in S : m <= k

\* C20: an identifier is in the macro table iff define_sym was called for it
\* since its last successful undef_sym; its value is that of the latest such
\* define_sym under Override and of the earliest under Preserve and
\* FailOnOverride; NotAuthorizedDefineOverride is in the log under
\* FailOnOverride only.
C20_TableFromHistory ==
  /\ \A i \in Idents :
       /\ i \in DOMAIN defined_syms <=> DefinesSince(i) # {}
       /\ i \in DOMAIN defined_syms =>
            defined_syms[i] =
              IF opt.define_method = "Override"
                THEN calls[Latest(DefinesSince(i))].value
                ELSE calls[Earliest(DefinesSince(i))].value
  /\ \A k \in 1..Len(runtime_errors) :
       runtime_errors[k].kind = "NotAuthorizedDefineOverride" =>
         opt.define_method = "FailOnOverride"

\* Under FailOnOverride: an identifier defined, undefined, then defined
\* twice with two values other than the first one.
C20_Witness ==
  /\ opt.define_method = "FailOnOverride"
  /\ Len(calls) = 4
  /\ \E i \in Idents :
       /\ IsDefine(1, i)
       /\ SuccessfulUndef(2, i)
       /\ DefinesSince(i) = {3, 4}
       /\ calls[3].value # calls[1].value
       /\ calls[4].value # calls[3].value
  /\ Len(runtime_errors) = 1

====
